---------------------------- MODULE Spec2Model ----------------------------
(***************************************************************************)
(* Model of the software-inventory-exporter charm (src/src/charm.py) and   *)
(* of its relation library (src/lib/charms/software_inventory_exporter/    *)
(* v0/software_inventory.py).                                              *)
(*                                                                         *)
(* Three specifications share the variables:                               *)
(*   Spec          the charm: the hooks the runtime dispatches to          *)
(*                 SoftwareInventoryExporterCharm, one action per hook,    *)
(*                 plus the changes the environment makes between hooks;   *)
(*   ProviderSpec  SoftwareInventoryProvider driven directly, as a library *)
(*                 (any port and address may be passed to it);             *)
(*   ConsumerSpec  SoftwareInventoryConsumer.all_exporters applied to      *)
(*                 relation data drawn from bounded sets.                  *)
(*                                                                         *)
(* A hook is one atomic action.  Its body is the sequential composition of *)
(* the methods the handler calls, each an operator from a "world" record   *)
(* to a world record; an exception raised by a step is the field exc, and  *)
(* every later step leaves the world alone (the exception propagates out   *)
(* of the handler).  The calls a handler makes are recorded, in order, in  *)
(* the history variable calls.                                             *)
(***************************************************************************)
EXTENDS Integers, Sequences, FiniteSets, TLC

VARIABLES
    config,        \* the charm configuration: [bind_address, port]
    resource,      \* what the last step's fetch of the "exporter-snap" resource found, if it fetched
    snap,          \* the exporter snap: [installed]
    confFile,      \* EXPORTER_CONF: the sequence of documents in the file
    service,       \* the exporter service: [active, loaded]
    relData,       \* relation id -> the local unit's data bucket
    provider,      \* SoftwareInventoryProvider: [port, bound_address]
    unitStatus,    \* self.unit.status: [name, message]
    hostname,      \* what socket.gethostname() returns on this machine
    modelName,     \* self.model.name
    binding,       \* the bind address of the relation endpoint's network binding, or None
    event,         \* the last step: the hook dispatched or the change made
    outcome,       \* "ok" or the exception that left the last hook
    calls,         \* the calls the last hook made, in order
    raised,        \* the exceptions those calls raised: [op, exc]
    errlog,        \* the error-level log records the last hook emitted
    pending,       \* the hook the runtime must dispatch next ("" when any may come)
    consRelations, \* consumer side: the relations, each a sequence of remote buckets
    exporters      \* consumer side: what all_exporters last returned

vars == <<config, resource, snap, confFile, service, relData, provider,
          unitStatus, hostname, modelName, binding, event, outcome, calls, raised,
          errlog, pending, consRelations, exporters>>

libVars == <<relData, provider, hostname, modelName, binding>>
consVars == <<consRelations, exporters>>

---------------------------------------------------------------------------
(* Bounds and the sets the inputs are drawn from.                          *)

MaxRelations == 2
MaxRemoteUnits == 3

Addresses == {"0.0.0.0", "10.0.0.10"}
(* the configurations the operator chooses among *)
Configs == {[bind_address |-> "0.0.0.0", port |-> 8675],
            [bind_address |-> "0.0.0.0", port |-> 9100],
            [bind_address |-> "10.0.0.10", port |-> 9100]}
PortStrings == {"8675", "5000", "10500"}
Hostnames == {"juju-machine-0"}
ModelNames == {"test_model"}
RelationIds == 1..MaxRelations

(* The resource: not attached, attached and empty, attached with 100 bytes *)
Resources == {[attached |-> FALSE, size |-> 0],
              [attached |-> TRUE, size |-> 0],
              [attached |-> TRUE, size |-> 100]}

---------------------------------------------------------------------------
(* Python values.                                                          *)

Digit(d) ==
    CASE d = 0 -> "0" [] d = 1 -> "1" [] d = 2 -> "2" [] d = 3 -> "3"
      [] d = 4 -> "4" [] d = 5 -> "5" [] d = 6 -> "6" [] d = 7 -> "7"
      [] d = 8 -> "8" [] d = 9 -> "9"

(* str(n) of a non-negative int: its decimal digits *)
RECURSIVE PyStr(_)
PyStr(n) == IF n < 10 THEN Digit(n) ELSE PyStr(n \div 10) \o Digit(n % 10)

(* int(n) of an int (the config option "port" is an int) *)
PyInt(n) == n

(* None, where a string is expected; no address or name equals it *)
PyNone == "<None>"

NoError == "ok"

EXPORTER_SNAP_NAME == "software-inventory-exporter"
EXPORTER_SERVICE ==
    "snap." \o EXPORTER_SNAP_NAME \o "." \o EXPORTER_SNAP_NAME \o ".service"
RESOURCE_PATH == "/path/to/resource"

Call(op, args) == [op |-> op, args |-> args]
Invoke(w, op, args) == [w EXCEPT !.calls = Append(@, Call(op, args))]
Raise(w, e) ==
    [w EXCEPT !.exc = e,
              !.raised = Append(@, [op |-> w.calls[Len(w.calls)].op, exc |-> e])]
Failed(w) == w.exc # NoError

Last(s) == s[Len(s)]

---------------------------------------------------------------------------
(* The relation library, provider side.                                    *)

(* the fields of ExporterConfig that have no default *)
RequiredKeys == {"hostname", "port", "model"}

(* asdict(ExporterConfig(hostname, port, model)): ingress_ip defaults to "" *)
ExporterConfig(h, p, m, ingress) ==
    [hostname |-> h, port |-> p, model |-> m, ingress_ip |-> ingress]

(* relation.data[unit].update(d): every key of d is set; a key set to the  *)
(* empty string is removed from the bucket, the other keys are kept        *)
DataUpdate(bucket, d) ==
    LET keys == {k \in DOMAIN bucket \cup DOMAIN d :
                    k \in DOMAIN d => d[k] # ""}
    IN  [k \in keys |-> IF k \in DOMAIN d THEN d[k] ELSE bucket[k]]

(* SoftwareInventoryProvider.__init__ *)
ProviderInitFields(bound_address, port) ==
    [port |-> port, bound_address |-> bound_address]

(* mutant: the hostname is also passed as ingress_ip *)
UpdateRelationDataWithIngress(w, r) ==
    LET host == w.hostname
        relation_data == ExporterConfig(host, w.prov.port, w.model, host)
    IN  [w EXCEPT !.rel[r] = DataUpdate(@, relation_data)]

UpdateRelationData(w, r) ==
    LET host == w.hostname
        relation_data == ExporterConfig(host, w.prov.port, w.model, "")
    IN  [w EXCEPT !.rel[r] = DataUpdate(@, relation_data)]

(* mutant: the data is published to every relation, not only the joined *)
OnConsumerJoinedEveryRelation(w, r) ==
    LET relation_data == ExporterConfig(w.hostname, w.prov.port, w.model, "")
    IN  [w EXCEPT !.rel = [q \in DOMAIN w.rel |->
                              DataUpdate(w.rel[q], relation_data)]]

(* SoftwareInventoryProvider._on_consumer_joined *)
OnConsumerJoined(w, r) == UpdateRelationData(w, r)

(* mutant: the loop returns after the first relation *)
UpdateEachFirstOnly(w, ids) ==
    IF ids = {} THEN w
    ELSE UpdateRelationData(w, CHOOSE i \in ids : \A j \in ids : i <= j)

(* for relation in consumer_relations: in relation id order *)
RECURSIVE UpdateEach(_, _)
UpdateEach(w, ids) ==
    IF ids = {} THEN w
    ELSE LET r == CHOOSE i \in ids : \A j \in ids : i <= j
         IN  UpdateEach(UpdateRelationData(w, r), ids \ {r})

(* mutant: the relations are updated before the new port is stored *)
UpdateConsumersStalePort(w, port, bound_address) ==
    IF Failed(w) THEN w
    ELSE LET w1 == Invoke(w, "update_consumers", <<port, bound_address>>)
             w2 == UpdateEach(w1, DOMAIN w1.rel)
         IN  [w2 EXCEPT !.prov = [port |-> port,
                                  bound_address |-> bound_address]]

UpdateConsumers(w, port, bound_address) ==
    IF Failed(w) THEN w
    ELSE LET w1 == Invoke(w, "update_consumers", <<port, bound_address>>)
             w2 == [w1 EXCEPT !.prov = [port |-> port,
                                        bound_address |-> bound_address]]
         IN  UpdateEach(w2, DOMAIN w2.rel)

---------------------------------------------------------------------------
(* The relation library, consumer side.                                    *)

(* remote_data.get(key): the value, or None *)
Get(bucket, key) == IF key \in DOMAIN bucket THEN bucket[key] ELSE PyNone

(* mutant: the second operand is preferred *)
PyOrSwapped(a, b) == IF b # PyNone /\ b # "" THEN b ELSE a

(* a or b *)
PyOr(a, b) == IF a # PyNone /\ a # "" THEN a ELSE b

(* remote_data[key], for the keys read in the order the constructor's      *)
(* arguments are evaluated: the first missing key raises KeyError          *)
MissingKey(bucket) ==
    IF "port" \notin DOMAIN bucket THEN "port"
    ELSE IF "hostname" \notin DOMAIN bucket THEN "hostname"
    ELSE IF "model" \notin DOMAIN bucket THEN "model"
    ELSE PyNone

(* mutant: a unit that lacks a required key is skipped *)
ReadUnitSkipping(acc, remote_data) ==
    IF acc.exc # NoError THEN acc
    ELSE LET ingress == PyOr(Get(remote_data, "ingress-address"),
                             Get(remote_data, "private-address"))
         IN  IF MissingKey(remote_data) # PyNone
             THEN acc
             ELSE [acc EXCEPT !.configs =
                      Append(@, ExporterConfig(remote_data["hostname"],
                                               remote_data["port"],
                                               remote_data["model"],
                                               ingress))]

(* mutant: a unit whose data is already in the list is skipped *)
ReadUnitDeduplicating(acc, remote_data) ==
    IF acc.exc # NoError THEN acc
    ELSE LET ingress == PyOr(Get(remote_data, "ingress-address"),
                             Get(remote_data, "private-address"))
         IN  IF MissingKey(remote_data) # PyNone
             THEN [acc EXCEPT !.exc = "KeyError"]
             ELSE LET c == ExporterConfig(remote_data["hostname"],
                                          remote_data["port"],
                                          remote_data["model"], ingress)
                  IN  IF \E i \in 1..Len(acc.configs) : acc.configs[i] = c
                      THEN acc
                      ELSE [acc EXCEPT !.configs = Append(@, c)]

(* the body of the inner loop: acc is [configs, exc] *)
ReadUnit(acc, remote_data) ==
    IF acc.exc # NoError THEN acc
    ELSE LET ingress == PyOr(Get(remote_data, "ingress-address"),
                             Get(remote_data, "private-address"))
         IN  IF MissingKey(remote_data) # PyNone
             THEN [acc EXCEPT !.exc = "KeyError"]
             ELSE [acc EXCEPT !.configs =
                      Append(@, ExporterConfig(remote_data["hostname"],
                                               remote_data["port"],
                                               remote_data["model"],
                                               ingress))]

(* for unit in relation.units *)
RECURSIVE ReadUnits(_, _)
ReadUnits(acc, units) ==
    IF units = <<>> THEN acc
    ELSE ReadUnits(ReadUnit(acc, Head(units)), Tail(units))

(* for relation in provider_relations *)
RECURSIVE ReadRelations(_, _)
ReadRelations(acc, relations) ==
    IF relations = <<>> THEN acc
    ELSE ReadRelations(ReadUnits(acc, Head(relations)), Tail(relations))

AllExportersOf(relations) ==
    ReadRelations([configs |-> <<>>, exc |-> NoError], relations)

---------------------------------------------------------------------------
(* The charm.                                                              *)

(* SoftwareInventoryExporterCharm.__init__: run at every dispatch *)
CharmInit(w) ==
    [w EXCEPT !.prov = ProviderInitFields(w.config.bind_address,
                                          PyStr(w.config.port))]

(* mutant: an empty resource file is accepted *)
SnapPathAcceptsEmpty(res) ==
    IF ~res.attached THEN PyNone
    ELSE IF ~(res.size >= 0) THEN PyNone
    ELSE RESOURCE_PATH

(* the snap_path property: the path, or None *)
SnapPath(res) ==
    IF ~res.attached THEN PyNone
    ELSE IF ~(res.size > 0) THEN PyNone
    ELSE RESOURCE_PATH

(* mutant: the file is opened for appending *)
WriteFileAppending(old, doc) == Append(old, doc)

(* open(EXPORTER_CONF, "w") and yaml.safe_dump(config, conf_file) *)
WriteFile(old, doc) == <<doc>>

RenderExporterConfig(w, in) ==
    IF Failed(w) THEN w
    ELSE LET w1 == Invoke(w, "render_exporter_config", <<>>)
             settings == [bind_address |-> w.config.bind_address,
                          port |-> PyInt(w.config.port)]
             doc == [settings |-> settings]
         IN  IF in.fail = "render" THEN Raise(w1, "OSError")
             ELSE [w1 EXCEPT !.conf = WriteFile(@, doc)]

(* self.exporter.restart(): the service starts again from the file *)
ExporterRestart(w, in) ==
    IF Failed(w) THEN w
    ELSE LET w1 == Invoke(w, "exporter.restart", <<>>)
         IN  IF in.fail = "restart" THEN Raise(w1, "SnapError")
             ELSE [w1 EXCEPT !.svc = [active |-> in.up, loaded |-> w1.conf]]

ReconfigureExporter(w, in) ==
    ExporterRestart(RenderExporterConfig(w, in), in)

IsExporterRunning(w) == w.svc.active

(* mutant: a blocked unit stays blocked *)
AssessStatusSticky(w) ==
    IF Failed(w) THEN w
    ELSE LET w1 == Invoke(w, "assess_status", <<>>)
         IN  IF IsExporterRunning(w1) /\ w1.status.name # "blocked"
             THEN [w1 EXCEPT !.status = [name |-> "active",
                                         message |-> "Unit is ready."]]
             ELSE [w1 EXCEPT
                     !.status = [name |-> "blocked",
                                 message |-> "Exporter service is not running."],
                     !.errlog = Append(@, [service |-> EXPORTER_SERVICE,
                                           num_lines |-> 20])]

AssessStatus(w) ==
    IF Failed(w) THEN w
    ELSE LET w1 == Invoke(w, "assess_status", <<>>)
         IN  IF IsExporterRunning(w1)
             THEN [w1 EXCEPT !.status = [name |-> "active",
                                         message |-> "Unit is ready."]]
             ELSE [w1 EXCEPT
                     !.status = [name |-> "blocked",
                                 message |-> "Exporter service is not running."],
                     !.errlog = Append(@, [service |-> EXPORTER_SERVICE,
                                           num_lines |-> 20])]

(* snap.install_local / snap.ensure *)
InstallSnap(w, in) ==
    LET path == SnapPath(in.resource)
    IN  IF path # PyNone
        THEN LET w1 == Invoke(w, "snap.install_local",
                              <<path, "dangerous=True", "classic=True">>)
             IN  IF in.fail = "install" THEN Raise(w1, "SnapError")
                 ELSE [w1 EXCEPT !.snap = [installed |-> TRUE]]
        ELSE LET w1 == Invoke(w, "snap.ensure",
                              <<EXPORTER_SNAP_NAME, "classic=True",
                                "state=latest">>)
             IN  IF in.fail = "install" THEN Raise(w1, "SnapError")
                 ELSE [w1 EXCEPT !.snap = [installed |-> TRUE]]

(* mutant: a failed install is logged and the handler goes on *)
HandleInstallSwallowing(w, in) ==
    LET w1 == InstallSnap(w, in)
    IN  AssessStatus(ReconfigureExporter([w1 EXCEPT !.exc = NoError], in))

HandleInstall(w, in) ==
    AssessStatus(ReconfigureExporter(InstallSnap(w, in), in))

(* mutant: the consumers are updated before the exporter is reconfigured *)
HandleConfigChangedPublishFirst(w, in) ==
    LET port == w.config.port
        address == w.config.bind_address
    IN  AssessStatus(ReconfigureExporter(
            UpdateConsumers(w, PyStr(port), address), in))

HandleConfigChanged(w, in) ==
    LET port == w.config.port
        address == w.config.bind_address
    IN  AssessStatus(UpdateConsumers(ReconfigureExporter(w, in),
                                     PyStr(port), address))

HandleUpdateStatus(w) == AssessStatus(w)

---------------------------------------------------------------------------
(* The state a hook starts from and the state it leaves.                   *)

World ==
    [config |-> config, conf |-> confFile, svc |-> service, rel |-> relData,
     prov |-> provider, status |-> unitStatus, snap |-> snap,
     hostname |-> hostname, model |-> modelName,
     calls |-> <<>>, raised |-> <<>>, errlog |-> <<>>, exc |-> NoError]

Commit(w, ev) ==
    /\ confFile' = w.conf
    /\ service' = w.svc
    /\ relData' = w.rel
    /\ provider' = w.prov
    /\ unitStatus' = w.status
    /\ snap' = w.snap
    /\ event' = ev
    /\ outcome' = w.exc
    /\ calls' = w.calls
    /\ raised' = w.raised
    /\ errlog' = w.errlog

(* what a hook meets: the step that fails, if one does, and whether the    *)
(* service is active once it has been restarted                            *)
Inputs(failures) ==
    [fail : {"none"}, up : BOOLEAN] \cup [fail : failures, up : {FALSE}]

EmptyBucket == [k \in {} |-> ""]

(* what the runtime puts into a new relation's local bucket *)
TransportBucket ==
    [k \in {"ingress-address", "private-address"} |-> "10.0.0.2"]

(* the bind address the runtime gives the relation endpoint *)
BindingAddress == "192.168.100.1"

(* before the first hook: nothing installed, rendered or published *)
Fresh ==
    /\ resource = <<>>
    /\ snap = [installed |-> FALSE]
    /\ confFile = <<>>
    /\ service = [active |-> FALSE, loaded |-> <<>>]
    /\ relData = EmptyBucket
    /\ unitStatus = [name |-> "unknown", message |-> ""]
    /\ hostname \in Hostnames
    /\ modelName \in ModelNames
    /\ event = "start"
    /\ outcome = NoError
    /\ calls = <<>>
    /\ raised = <<>>
    /\ errlog = <<>>
    /\ pending = "install"
    /\ consRelations = <<>>
    /\ exporters = <<>>

DefaultConfig == [bind_address |-> "0.0.0.0", port |-> 8675]

Init ==
    /\ Fresh
    /\ config \in Configs
    /\ binding = BindingAddress
    /\ provider = ProviderInitFields("0.0.0.0", "8675")

(* The runtime runs one hook at a time.  The install hook comes first; a   *)
(* hook that failed is dispatched again, and no other, until it succeeds.  *)
Dispatch(hook) == pending \in {"", hook}
Dispatched(hook, w) == pending' = IF Failed(w) THEN hook ELSE ""

(* the install hook *)
OnInstall ==
    /\ pending = "install"
    /\ \E res \in Resources, in \in Inputs({"install", "render", "restart"}) :
          /\ resource' = <<res>>
          /\ LET w == HandleInstall(CharmInit(World),
                        [fail |-> in.fail, up |-> in.up, resource |-> res])
             IN  Commit(w, "install") /\ Dispatched("install", w)
    /\ UNCHANGED <<config, hostname, modelName, binding, consVars>>

(* the upgrade-charm hook: the same handler *)
OnUpgradeCharm ==
    /\ Dispatch("upgrade_charm")
    /\ \E res \in Resources, in \in Inputs({"install", "render", "restart"}) :
          /\ resource' = <<res>>
          /\ LET w == HandleInstall(CharmInit(World),
                        [fail |-> in.fail, up |-> in.up, resource |-> res])
             IN  Commit(w, "upgrade_charm") /\ Dispatched("upgrade_charm", w)
    /\ UNCHANGED <<config, hostname, modelName, binding, consVars>>

OnConfigChanged ==
    /\ Dispatch("config_changed")
    /\ \E in \in Inputs({"render", "restart"}) :
          LET w == HandleConfigChanged(CharmInit(World), in)
          IN  Commit(w, "config_changed") /\ Dispatched("config_changed", w)
    /\ resource' = <<>>
    /\ UNCHANGED <<config, hostname, modelName, binding, consVars>>

OnUpdateStatus ==
    /\ Dispatch("update_status")
    /\ LET w == HandleUpdateStatus(CharmInit(World))
       IN  Commit(w, "update_status") /\ Dispatched("update_status", w)
    /\ resource' = <<>>
    /\ UNCHANGED <<config, hostname, modelName, binding, consVars>>

(* <relation>-relation-joined, dispatched to the provider *)
OnRelationJoined ==
    /\ Dispatch("relation_joined")
    /\ \E r \in DOMAIN relData :
          LET w == OnConsumerJoined(CharmInit(World), r)
          IN  Commit(w, "relation_joined") /\ Dispatched("relation_joined", w)
    /\ resource' = <<>>
    /\ UNCHANGED <<config, hostname, modelName, binding, consVars>>

(* a step of the environment is no hook: it makes no call *)
EnvStep(ev) ==
    /\ event' = ev
    /\ outcome' = NoError
    /\ calls' = <<>>
    /\ raised' = <<>>
    /\ errlog' = <<>>
    /\ resource' = <<>>
    /\ pending' = pending

(* the environment: the operator sets the configuration *)
ConfigSet ==
    /\ \E c \in Configs :
          /\ c # config
          /\ config' = c
    /\ EnvStep("config_set")
    /\ UNCHANGED <<snap, confFile, service, unitStatus, libVars, consVars>>

(* the environment: the runtime creates a relation *)
RelationCreated ==
    /\ \E r \in RelationIds \ DOMAIN relData :
          relData' = (r :> TransportBucket) @@ relData
    /\ EnvStep("relation_created")
    /\ UNCHANGED <<config, snap, confFile, service, unitStatus, provider,
                   hostname, modelName, binding, consVars>>

(* the environment: the service stops, or comes back, on its own *)
ServiceChange ==
    /\ snap.installed
    /\ service' = [service EXCEPT !.active = ~@]
    /\ EnvStep("service_change")
    /\ UNCHANGED <<config, snap, confFile, unitStatus, libVars, consVars>>

---------------------------------------------------------------------------
(* The provider as a library: its methods called by any charm.             *)

(* the endpoint is constructed with the address and port its charm gives *)
ProviderInit ==
    /\ Fresh
    /\ config = DefaultConfig
    /\ binding \in {BindingAddress, PyNone}
    /\ \E a \in Addresses, p \in PortStrings :
          provider = ProviderInitFields(a, p)

(* the environment: a relation is created; under the test harness its     *)
(* local bucket starts empty                                               *)
LibRelationCreated ==
    /\ \E r \in RelationIds \ DOMAIN relData,
          b \in {EmptyBucket, TransportBucket} :
          relData' = (r :> b) @@ relData
    /\ EnvStep("relation_created")
    /\ UNCHANGED <<config, snap, confFile, service, unitStatus, provider,
                   hostname, modelName, binding, consVars>>

LibConsumerJoined ==
    /\ \E r \in DOMAIN relData :
          Commit(OnConsumerJoined(World, r), "consumer_joined")
    /\ resource' = <<>>
    /\ UNCHANGED <<config, hostname, modelName, binding, pending, consVars>>

LibUpdateConsumers ==
    /\ \E p \in PortStrings, a \in Addresses :
          Commit(UpdateConsumers(World, p, a), "update_consumers")
    /\ resource' = <<>>
    /\ UNCHANGED <<config, hostname, modelName, binding, pending, consVars>>

ProviderNext ==
    \/ LibRelationCreated
    \/ LibConsumerJoined
    \/ LibUpdateConsumers

ProviderSpec == ProviderInit /\ [][ProviderNext]_vars

---------------------------------------------------------------------------
(* The consumer as a library: all_exporters over the remote units' data.   *)

RemoteBucket(h, ingress, private) ==
    LET keys == RequiredKeys
                  \cup (IF ingress THEN {"ingress-address"} ELSE {})
                  \cup (IF private THEN {"private-address"} ELSE {})
    IN  [k \in keys |->
            CASE k = "hostname" -> h
              [] k = "port" -> "5000"
              [] k = "model" -> "test_model"
              [] k = "ingress-address" -> "10.0.0.5"
              [] k = "private-address" -> "10.0.0.9"]

Without(bucket, key) == [k \in DOMAIN bucket \ {key} |-> bucket[k]]

(* the buckets a remote unit may have: the transport stores no empty value *)
RemoteBuckets ==
    {RemoteBucket("exporter-a", TRUE, FALSE),
     RemoteBucket("exporter-a", FALSE, TRUE),
     RemoteBucket("exporter-b", TRUE, TRUE),
     RemoteBucket("exporter-b", FALSE, FALSE)}
    \cup {Without(RemoteBucket("exporter-a", TRUE, FALSE), k) : k \in RequiredKeys}

RECURSIVE TotalUnits(_)
TotalUnits(relations) ==
    IF relations = <<>> THEN 0
    ELSE Len(Head(relations)) + TotalUnits(Tail(relations))

ConsumerInit ==
    /\ Fresh
    /\ config = DefaultConfig
    /\ binding = BindingAddress
    /\ provider = ProviderInitFields("0.0.0.0", "8675")

ConsumerStep(ev) ==
    /\ event' = ev
    /\ UNCHANGED <<config, resource, snap, confFile, service, unitStatus,
                   libVars, calls, raised, errlog, pending>>

(* the environment: the runtime creates a relation of the consumer's name *)
RemoteRelationCreated ==
    /\ Len(consRelations) < MaxRelations
    /\ consRelations' = Append(consRelations, <<>>)
    /\ exporters' = <<>>
    /\ outcome' = NoError
    /\ ConsumerStep("remote_relation_created")

(* the environment: a remote unit joins a relation, with its data *)
RemoteUnitJoined ==
    /\ TotalUnits(consRelations) < MaxRemoteUnits
    /\ \E i \in 1..Len(consRelations), b \in RemoteBuckets :
          consRelations' = [consRelations EXCEPT ![i] = Append(@, b)]
    /\ exporters' = <<>>
    /\ outcome' = NoError
    /\ ConsumerStep("remote_unit_joined")

AllExporters ==
    /\ LET result == AllExportersOf(consRelations)
       IN  /\ exporters' = IF result.exc = NoError THEN result.configs ELSE <<>>
           /\ outcome' = result.exc
    /\ ConsumerStep("all_exporters")
    /\ UNCHANGED consRelations

ConsumerNext ==
    \/ RemoteRelationCreated
    \/ RemoteUnitJoined
    \/ AllExporters

ConsumerSpec == ConsumerInit /\ [][ConsumerNext]_vars

---------------------------------------------------------------------------
(* The charm under the runtime.                                            *)

Next ==
    \/ OnInstall
    \/ OnUpgradeCharm
    \/ OnConfigChanged
    \/ OnUpdateStatus
    \/ OnRelationJoined
    \/ ConfigSet
    \/ RelationCreated
    \/ ServiceChange

Spec == Init /\ [][Next]_vars

---------------------------------------------------------------------------
(* Properties.                                                             *)

IsPrefix(s, t) == Len(s) <= Len(t) /\ SubSeq(t, 1, Len(s)) = s
Called(op) == \E i \in 1..Len(calls) : calls[i].op = op
TimesCalled(op) == Cardinality({i \in 1..Len(calls) : calls[i].op = op})
Published(r) == RequiredKeys \subseteq DOMAIN relData[r]

(* the document Reconfigure renders for the current configuration *)
RenderedDocument ==
    [settings |-> [bind_address |-> config.bind_address, port |-> config.port]]

ConfigChangedCalls ==
    <<Call("render_exporter_config", <<>>),
      Call("exporter.restart", <<>>),
      Call("update_consumers", <<PyStr(config.port), config.bind_address>>),
      Call("assess_status", <<>>)>>

(* C1: a config-changed hook calls, in this order and each once, render,   *)
(* restart, update_consumers(str(port), bind_address), assess_status; a    *)
(* hook that fails has made a prefix of these calls, and consumers are     *)
(* updated only once the restarted service has loaded the rendered file.   *)
C1_ConfigChangedOrder ==
    event = "config_changed" =>
        /\ IsPrefix(calls, ConfigChangedCalls)
        /\ outcome = NoError => calls = ConfigChangedCalls
        /\ Called("update_consumers") =>
              /\ confFile = <<RenderedDocument>>
              /\ service.loaded = confFile

C1_Witness ==
    /\ event = "config_changed"
    /\ outcome = NoError
    /\ Len(calls) = 4
    /\ config.port = 9100
    /\ DOMAIN relData # {}

(* C2: after a config-changed hook that completed without error, every     *)
(* relation holds str(config port), the port of the rendered file, and the *)
(* current model name.                                                     *)
C2_PublishedReflectsConfig ==
    (event = "config_changed" /\ outcome = NoError) =>
        \A r \in DOMAIN relData :
            /\ Published(r)
            /\ relData[r]["port"] = PyStr(config.port)
            /\ Len(confFile) = 1
            /\ relData[r]["port"] = PyStr(confFile[1].settings.port)
            /\ relData[r]["model"] = modelName

C2_Witness ==
    /\ event = "config_changed"
    /\ outcome = NoError
    /\ Cardinality(DOMAIN relData) >= 2
    /\ \A r \in DOMAIN relData : Published(r) /\ relData[r]["port"] = "9100"

(* C3: in every state, a port published in a relation is the port the      *)
(* service was last rendered and restarted with.                           *)
C3_PublishedIsServedPort ==
    \A r \in DOMAIN relData :
        Published(r) =>
            /\ service.loaded # <<>>
            /\ relData[r]["port"] = PyStr(Last(service.loaded).settings.port)

(* C4: once a hook has rendered the file (the restart that follows the     *)
(* render was called), the file holds exactly the one document             *)
(* {settings: {bind_address, port: int(port)}} of the current              *)
(* configuration.                                                          *)
C4_RenderedExactly ==
    Called("exporter.restart") =>
        /\ confFile = <<RenderedDocument>>
        /\ DOMAIN confFile[1] = {"settings"}
        /\ DOMAIN confFile[1].settings = {"bind_address", "port"}
        /\ confFile[1].settings.port \in Int

(* a second render: the service still runs with an earlier document *)
C4_Witness ==
    /\ Called("exporter.restart")
    /\ outcome = "SnapError"
    /\ confFile = <<RenderedDocument>>
    /\ service.loaded # <<>>
    /\ service.loaded # confFile

(* the keys of a bucket that the transport did not put there *)
OwnKeys(bucket) == DOMAIN bucket \ DOMAIN TransportBucket

(* C5: after update_consumers(p, a) the provider's port and bound_address  *)
(* are p and a and every relation holds the data of that call only; a      *)
(* second call with the same arguments changes nothing.                    *)
C5_LastCallPublished ==
    event = "update_consumers" =>
        LET p == calls[1].args[1]
            a == calls[1].args[2]
        IN  /\ provider = [port |-> p, bound_address |-> a]
            /\ \A r \in DOMAIN relData :
                  /\ OwnKeys(relData[r]) = RequiredKeys
                  /\ relData[r]["port"] = p
                  /\ relData[r]["hostname"] = hostname
                  /\ relData[r]["model"] = modelName

C5_Idempotent ==
    (event = "update_consumers" /\ event' = "update_consumers" /\ calls' = calls)
        => (relData' = relData /\ provider' = provider)

(* C5: the last update_consumers call is what is published, and the call  *)
(* is idempotent.                                                          *)
C5_UpdateConsumersOverwrites ==
    [](C5_LastCallPublished) /\ [][C5_Idempotent]_vars

(* a call that replaced what an earlier call with another port published *)
C5_Witness ==
    /\ event = "update_consumers"
    /\ calls[1].args = <<"10500", "10.0.0.10">>
    /\ Cardinality(DOMAIN relData) = 2
    /\ \A r \in DOMAIN relData : Published(r) /\ relData[r]["port"] = "10500"

LocalInstall ==
    Call("snap.install_local", <<RESOURCE_PATH, "dangerous=True", "classic=True">>)
RemoteInstall ==
    Call("snap.ensure", <<EXPORTER_SNAP_NAME, "classic=True", "state=latest">>)

(* C6: an install or upgrade hook makes exactly one install call: the local *)
(* install, dangerous and classic, iff the resource was fetched and its    *)
(* size is above zero, and otherwise the store install at latest.          *)
C6_OneInstallPath ==
    event \in {"install", "upgrade_charm"} =>
        /\ Len(resource) = 1
        /\ TimesCalled("snap.install_local") + TimesCalled("snap.ensure") = 1
        /\ calls[1] \in {LocalInstall, RemoteInstall}
        /\ calls[1] = LocalInstall <=>
              (resource[1].attached /\ resource[1].size > 0)

C6_Witness ==
    /\ event = "install"
    /\ resource = <<[attached |-> TRUE, size |-> 0]>>
    /\ calls[1] = RemoteInstall
    /\ outcome = NoError

InstallCalls(first) ==
    <<first, Call("render_exporter_config", <<>>),
      Call("exporter.restart", <<>>), Call("assess_status", <<>>)>>

(* C7: an install or upgrade hook calls the install step, render, restart  *)
(* and assess_status in this order, each once; when the install step       *)
(* fails the hook fails having called nothing else, and the file, the      *)
(* service and the unit status are as they were.                           *)
C7_InstallCalls ==
    event \in {"install", "upgrade_charm"} =>
        /\ calls[1] \in {LocalInstall, RemoteInstall}
        /\ IsPrefix(calls, InstallCalls(calls[1]))
        /\ outcome = NoError => calls = InstallCalls(calls[1])
        /\ Len(calls) < 4 => outcome # NoError

InstallFailed ==
    /\ raised # <<>>
    /\ raised[1].op \in {"snap.install_local", "snap.ensure"}

C7_FailedInstallFrame ==
    (event' \in {"install", "upgrade_charm"} /\ InstallFailed')
        => /\ outcome' = raised'[1].exc
           /\ Len(calls') = 1
           /\ UNCHANGED <<confFile, service, unitStatus>>

(* C7: install, then reconfigure, then assess; a failed install step      *)
(* leaves the handler at once and changes nothing.                         *)
C7_InstallThenReconfigureThenAssess ==
    [](C7_InstallCalls) /\ [][C7_FailedInstallFrame]_vars

(* an upgrade whose install step failed, on a configured unit *)
C7_Witness ==
    /\ event = "upgrade_charm"
    /\ InstallFailed
    /\ Len(calls) = 1
    /\ outcome = "SnapError"
    /\ confFile # <<>>
    /\ unitStatus.name = "active"

StatusOf(active) == IF active THEN "active" ELSE "blocked"

(* C8: update-status sets the unit status from the service's active flag   *)
(* alone and changes nothing else; after any hook that assessed the        *)
(* status, the status is the one the flag gives.                           *)
C8_Assessed ==
    (Called("assess_status") /\ outcome = NoError)
        => unitStatus.name = StatusOf(service.active)

C8_UpdateStatusFrame ==
    event' = "update_status" =>
        /\ unitStatus'.name = StatusOf(service.active)
        /\ UNCHANGED <<service, confFile, relData, snap, config>>

(* C8: the unit status follows the active flag, and update-status changes *)
(* nothing but the status.                                                 *)
C8_AssessStatusObserves ==
    [](C8_Assessed) /\ [][C8_UpdateStatusFrame]_vars

(* update-status found a unit that was active no longer running *)
C8_Witness ==
    /\ event = "update_status"
    /\ unitStatus.name = "blocked"
    /\ ~service.active
    /\ errlog # <<>>
    /\ confFile # <<>>

(* the place in the returned list of unit k of relation j *)
Place(j, k) == TotalUnits(SubSeq(consRelations, 1, j - 1)) + k

(* C9: all_exporters returns one entry per remote unit, in relation order  *)
(* and then unit order, each with the unit's hostname, port and model.     *)
C9_OnePerUnitInOrder ==
    (event = "all_exporters" /\ outcome = NoError) =>
        /\ Len(exporters) = TotalUnits(consRelations)
        /\ \A j \in 1..Len(consRelations) :
              \A k \in 1..Len(consRelations[j]) :
                 /\ exporters[Place(j, k)].hostname = consRelations[j][k]["hostname"]
                 /\ exporters[Place(j, k)].port = consRelations[j][k]["port"]
                 /\ exporters[Place(j, k)].model = consRelations[j][k]["model"]

(* relations with 1 and 2 units, two of the units with equal data *)
C9_Witness ==
    /\ event = "all_exporters"
    /\ outcome = NoError
    /\ Len(consRelations) = 2
    /\ Len(consRelations[1]) = 1
    /\ Len(consRelations[2]) = 2
    /\ consRelations[1][1] = consRelations[2][2]
    /\ consRelations[2][1] # consRelations[2][2]
    /\ Len(exporters) = 3
    /\ exporters[1] = exporters[3]

(* C10: the ingress_ip of an entry is the unit's ingress-address when it   *)
(* has one, and its private-address when it has that one only.             *)
C10_IngressResolution ==
    (event = "all_exporters" /\ outcome = NoError) =>
        \A j \in 1..Len(consRelations) :
           \A k \in 1..Len(consRelations[j]) :
              LET b == consRelations[j][k]
                  e == exporters[Place(j, k)]
              IN  /\ "ingress-address" \in DOMAIN b
                        => e.ingress_ip = b["ingress-address"]
                  /\ ("ingress-address" \notin DOMAIN b
                        /\ "private-address" \in DOMAIN b)
                        => e.ingress_ip = b["private-address"]

(* a unit with both addresses and a unit with the private address only *)
C10_Witness ==
    /\ event = "all_exporters"
    /\ outcome = NoError
    /\ Len(exporters) = 2
    /\ \E j \in 1..Len(consRelations) :
          /\ Len(consRelations[j]) = 2
          /\ DOMAIN consRelations[j][1] =
                RequiredKeys \cup {"ingress-address", "private-address"}
          /\ DOMAIN consRelations[j][2] = RequiredKeys \cup {"private-address"}
    /\ exporters[1].ingress_ip = "10.0.0.5"
    /\ exporters[2].ingress_ip = "10.0.0.9"

ProviderWrote == event \in {"consumer_joined", "update_consumers"}

(* the address the exporter is reached at: its bound address, or the       *)
(* binding's when it listens on every address                              *)
EffectiveAddress ==
    IF provider.bound_address # "0.0.0.0" THEN provider.bound_address
    ELSE binding

(* C11: the hostname the provider publishes is the bound address when that *)
(* is explicit, and the bind address of the endpoint's network binding     *)
(* when the bound address is 0.0.0.0; port and model are the provider's.   *)
C11_PublishedEffectiveAddress ==
    (ProviderWrote /\ EffectiveAddress # PyNone) =>
        \A r \in DOMAIN relData :
            Published(r) =>
                /\ relData[r]["hostname"] = EffectiveAddress
                /\ relData[r]["port"] = provider.port
                /\ relData[r]["model"] = modelName

(* C12: with bound address 0.0.0.0 and no network binding, updating a      *)
(* relation's data raises RuntimeError.                                    *)
C12_NoBindingRaises ==
    (ProviderWrote /\ DOMAIN relData # {}
       /\ provider.bound_address = "0.0.0.0" /\ binding = PyNone)
        => outcome = "RuntimeError"

(* the keys of relation r's bucket that the step added, removed or changed *)
KeysChanged(r) ==
    {k \in DOMAIN relData[r] \cup DOMAIN relData'[r] :
        ~(/\ k \in DOMAIN relData[r]
          /\ k \in DOMAIN relData'[r]
          /\ relData[r][k] = relData'[r][k])}

IngressKeys == {"ingress_ip", "ingress-address", "private-address"}

C13_WriteFrame ==
    ProviderWrote' =>
        \A r \in DOMAIN relData :
            /\ KeysChanged(r) \subseteq RequiredKeys
            /\ KeysChanged(r) \cap IngressKeys = {}
            /\ DOMAIN relData'[r] \ DOMAIN relData[r] \subseteq RequiredKeys
            /\ "ingress_ip" \notin DOMAIN relData'[r]
            /\ (event' = "update_consumers" \/ KeysChanged(r) # {})
                  => RequiredKeys \subseteq DOMAIN relData'[r]

Malformed(bucket) == ~(RequiredKeys \subseteq DOMAIN bucket)

SomeUnitMalformed ==
    \E i \in 1..Len(consRelations) :
        \E j \in 1..Len(consRelations[i]) : Malformed(consRelations[i][j])

(* C14: when any remote unit of any relation lacks hostname, port or       *)
(* model, all_exporters fails with KeyError for the whole call and returns *)
(* no list, whatever well-formed units come before or after that unit.     *)
C14_MissingKeyFailsWholeCall ==
    event = "all_exporters" =>
        /\ SomeUnitMalformed => (outcome = "KeyError" /\ exporters = <<>>)
        /\ outcome = "KeyError" => SomeUnitMalformed

(* the call failed on a unit with a well-formed unit before and after it   *)
C14_Witness ==
    /\ event = "all_exporters"
    /\ outcome = "KeyError"
    /\ exporters = <<>>
    /\ \E i \in 1..Len(consRelations) :
          /\ Len(consRelations[i]) = 3
          /\ ~Malformed(consRelations[i][1])
          /\ Malformed(consRelations[i][2])
          /\ ~Malformed(consRelations[i][3])

(* a remote unit's bucket with no usable ingress-address or private-address *)
NoAddress(bucket) ==
    /\ Get(bucket, "ingress-address") \in {PyNone, ""}
    /\ Get(bucket, "private-address") \in {PyNone, ""}

(* the well-formed buckets of the remote units, in the order they are read *)
RECURSIVE Flatten(_)
Flatten(relations) ==
    IF relations = <<>> THEN <<>>
    ELSE Head(relations) \o Flatten(Tail(relations))

(* C16: every ExporterConfig that all_exporters returns has a string       *)
(* ingress_ip: for a unit with neither ingress-address nor private-address *)
(* it is the empty string, the default of the record, and never None.      *)
C16_IngressIsString ==
    (event = "all_exporters" /\ outcome = NoError) =>
        /\ Len(exporters) = Len(Flatten(consRelations))
        /\ \A i \in 1..Len(exporters) :
              /\ exporters[i].ingress_ip # PyNone
              /\ NoAddress(Flatten(consRelations)[i])
                    => exporters[i].ingress_ip = ""

C15_JoinFrame ==
    event' = "relation_joined" =>
        /\ DOMAIN relData' = DOMAIN relData
        /\ \E r \in DOMAIN relData :
              /\ RequiredKeys \subseteq DOMAIN relData'[r]
              /\ relData'[r]["hostname"] = hostname
              /\ relData'[r]["port"] = provider'.port
              /\ relData'[r]["model"] = modelName
              /\ \A q \in DOMAIN relData \ {r} : relData'[q] = relData[q]
        /\ provider' = ProviderInitFields(config.bind_address,
                                          PyStr(config.port))
        /\ UNCHANGED <<confFile, service, unitStatus, snap, config>>

(* C15: handling the join of a peer to relation R publishes the provider's *)
(* hostname, port and model into R's local bucket only: the data of every  *)
(* other relation, the provider's port and bound_address, the              *)
(* configuration file, the service and the unit status stay as they were.  *)
C15_JoinPublishesToOneRelation == [][C15_JoinFrame]_vars

(* a join published to one relation while another, created earlier, is     *)
(* still unpublished and the exporter is configured and running            *)
C15_Witness ==
    /\ event = "relation_joined"
    /\ confFile # <<>>
    /\ service.active
    /\ \E r, q \in DOMAIN relData :
          /\ q < r
          /\ Published(r)
          /\ relData[r]["port"] = provider.port
          /\ ~Published(q)

===========================================================================
